---------------------------- MODULE Spec2Model ----------------------------
(***************************************************************************)
(* Model of FinanceTracker (streamlit_app.py): a session-scoped ledger of  *)
(* transactions, a list of category names and a monthly budget, with the   *)
(* handlers that mutate them (the two sidebar forms) and the four tabs     *)
(* that read them.                                                         *)
(*                                                                         *)
(* Conventions                                                             *)
(*  - st.session_state['transactions'] is a DataFrame whose index is       *)
(*    0..n-1 (pd.concat(..., ignore_index=True)); it is the sequence       *)
(*    `transactions`, and a filtered / sorted frame is the sequence of the *)
(*    row labels (1-based here) it keeps, in display order.                *)
(*  - a datetime.date is <<month, day>>; pd.to_datetime turns it into the  *)
(*    Timestamp <<month, day, 0>> (midnight).                              *)
(*  - amounts and the budget are counted in hundredths (st.number_input    *)
(*    with step 0.01), so they are positive / non-negative integers.       *)
(*  - the strings of the user interface are written in ASCII:              *)
(*    '收入' = "Income", '支出' = "Expense", '日期' = "date",              *)
(*    '金額' = "amount", the ten default categories by their English names.*)
(*  - `out` is what the last handler rendered (st.success / st.error /     *)
(*    st.info messages, metrics and data frames) together with the widget  *)
(*    values it was run with.                                              *)
(***************************************************************************)
EXTENDS Integers, Sequences, FiniteSets, TLC

VARIABLES transactions, categories, budget, out

vars == <<transactions, categories, budget, out>>

(***************************** bounds **************************************)
\* Largest number of rows the ledger grows to.
MaxTx == 2

\* Values the widgets are given.
Dates == {<<1, 2>>, <<2, 1>>}            \* st.date_input of the form
RefDates == {<<1, 2>>, <<2, 2>>}         \* datetime.date.today()
RangeDates == {<<1, 2>>, <<2, 1>>}       \* start / end date of the range tab
Amounts == {1, 2}                        \* st.number_input(min_value=0.01)
Budgets == {0, 3}                        \* st.number_input(min_value=0.0)
Notes == {""}
NewNames == {"Salary"}                   \* typed into "new category"

\* The form values of the session specification.
FormDates == {<<1, 2>>}
FormAmounts == {1}
Today == <<1, 2>>

(***************************** constants ***********************************)
Income == "Income"
Expense == "Expense"
Types == {Income, Expense}

\* Python's None (what st.selectbox returns when it has no options).
None == "<None>"

DefaultCategories ==
    <<"Food", "Transport", "Entertainment", "Medical", "Education",
      "Shopping", "Rent", "Utilities", "Travel", "Other">>

SortOptions == {"DateDesc", "DateAsc", "AmountDesc", "AmountAsc"}

(***************************** helpers *************************************)
Range(s) == {s[i] : i \in DOMAIN s}

\* pd.to_datetime(date): the Timestamp at midnight of that day.
to_datetime(date) == <<date[1], date[2], 0>>

\* datetime.date.replace(day=1)
replace_day1(date) == <<date[1], 1>>

\* Timestamp comparison a <= b.
TsLeq(a, b) ==
    \/ a[1] < b[1]
    \/ a[1] = b[1] /\ a[2] < b[2]
    \/ a[1] = b[1] /\ a[2] = b[2] /\ a[3] <= b[3]

\* list.remove(x): drops the first occurrence of x (the caller makes sure
\* that x occurs; Python raises ValueError otherwise).
ListRemove(s, x) ==
    LET i == CHOOSE k \in DOMAIN s : s[k] = x /\ \A j \in 1..(k - 1) : s[j] # x
    IN  SubSeq(s, 1, i - 1) \o SubSeq(s, i + 1, Len(s))

\* st.selectbox(label, options): the values it can return.
Selectbox(options) == IF options = <<>> THEN {None} ELSE Range(options)

\* df['金額'].sum() over the rows `labels` of the frame df.
RECURSIVE SumAmount(_, _)
SumAmount(df, labels) ==
    IF labels = <<>> THEN 0
    ELSE df[Head(labels)].amount + SumAmount(df, Tail(labels))

AllRows(df) == [i \in 1..Len(df) |-> i]

Min(a, b) == IF a <= b THEN a ELSE b

(***************************** the ledger **********************************)
\* FinanceTracker.__init__: the three session entries when absent.
InitialTransactions == <<>>
InitialCategories == DefaultCategories
InitialBudget == 0

\* A slip in _add_transaction: the frames concatenated in the other order.
add_transaction_prepend(df, date, category, amount, transaction_type, note) ==
    <<[date     |-> to_datetime(date),
       category |-> category,
       amount   |-> amount,
       type     |-> transaction_type,
       note     |-> note]>> \o df

\* _add_transaction: one row built from the form values, concatenated after
\* the rows already stored (pd.concat([old, new], ignore_index=True)).
add_transaction(df, date, category, amount, transaction_type, note) ==
    Append(df, [date     |-> to_datetime(date),
                category |-> category,
                amount   |-> amount,
                type     |-> transaction_type,
                note     |-> note])

\* A slip in _update_categories: list.pop() in place of list.remove(name).
update_categories_pop(cats, new_category, delete_category) ==
    LET added == new_category # "" /\ new_category \notin Range(cats)
        cats1 == IF added THEN Append(cats, new_category) ELSE cats
    IN  IF delete_category # ""
        THEN [categories |-> SubSeq(cats1, 1, Len(cats1) - 1),
              added |-> added, deleted |-> TRUE, raised |-> FALSE]
        ELSE [categories |-> cats1,
              added |-> added, deleted |-> FALSE, raised |-> FALSE]

\* A slip in _update_categories: the `not in` test left out.
update_categories_nocheck(cats, new_category, delete_category) ==
    LET added == new_category # ""
        cats1 == IF added THEN Append(cats, new_category) ELSE cats
    IN  IF delete_category # ""
        THEN IF delete_category \in Range(cats1)
             THEN [categories |-> ListRemove(cats1, delete_category),
                   added |-> added, deleted |-> TRUE, raised |-> FALSE]
             ELSE [categories |-> cats1,
                   added |-> added, deleted |-> FALSE, raised |-> TRUE]
        ELSE [categories |-> cats1,
              added |-> added, deleted |-> FALSE, raised |-> FALSE]

\* _update_categories: the list after the call and the messages it showed.
\* `raised` is the ValueError of list.remove on a name that is not there.
update_categories(cats, new_category, delete_category) ==
    LET added == new_category # "" /\ new_category \notin Range(cats)
        cats1 == IF added THEN Append(cats, new_category) ELSE cats
    IN  IF delete_category # ""
        THEN IF delete_category \in Range(cats1)
             THEN [categories |-> ListRemove(cats1, delete_category),
                   added |-> added, deleted |-> TRUE, raised |-> FALSE]
             ELSE [categories |-> cats1,
                   added |-> added, deleted |-> FALSE, raised |-> TRUE]
        ELSE [categories |-> cats1,
              added |-> added, deleted |-> FALSE, raised |-> FALSE]

(***************************** the views ***********************************)
\* A slip in the filters: one mask built with | in place of two selections.
filter_rows_either(df, filter_type, filter_category) ==
    SelectSeq(AllRows(df),
        LAMBDA i : df[i].type \in filter_type \/ df[i].category \in filter_category)

\* display_transactions, lines 74-76: df[df['類型'].isin(filter_type)] and
\* then df[df['類別'].isin(filter_category)].
filter_rows(df, filter_type, filter_category) ==
    LET byType == SelectSeq(AllRows(df), LAMBDA i : df[i].type \in filter_type)
    IN  SelectSeq(byType, LAMBDA i : df[i].category \in filter_category)

\* The column and direction each sort option stands for (lines 78-85).
SortColumn(sort_by) ==
    IF sort_by \in {"DateDesc", "DateAsc"} THEN "date" ELSE "amount"

SortAscending(sort_by) == sort_by \in {"DateAsc", "AmountAsc"}

\* a <= b on the values of column `by`.
KeyLeq(df, by, i, j) ==
    IF by = "date" THEN TsLeq(df[i].date, df[j].date)
    ELSE df[i].amount <= df[j].amount

\* All orders of the rows `labels`.
Orders(labels) ==
    LET n == Len(labels)
    IN  {[k \in 1..n |-> labels[f[k]]] :
            f \in {g \in [1..n -> 1..n] : \A a, b \in 1..n : a # b => g[a] # g[b]}}

\* DataFrame.sort_values(by, ascending) with the default kind='quicksort':
\* the rows in key order; pandas promises no order among rows of equal key
\* (only kind='mergesort' / 'stable' does), so every order of the ties is a
\* possible result.
sort_values(df, labels, by, ascending) ==
    {p \in Orders(labels) :
        \A a, b \in 1..Len(p) :
            a < b => IF ascending THEN KeyLeq(df, by, p[a], p[b])
                                  ELSE KeyLeq(df, by, p[b], p[a])}

\* transactions[transactions['類型'] == t]['金額'].sum()
type_total(df, labels, t) ==
    SumAmount(df, SelectSeq(labels, LAMBDA i : df[i].type = t))

\* A slip in the month filter: the type test left out.
month_expenses_all_types(df, today) ==
    LET current_month == to_datetime(replace_day1(today))
    IN  SumAmount(df, SelectSeq(AllRows(df),
            LAMBDA i : TsLeq(current_month, df[i].date)))

\* set_budget, lines 134-138: the expenses dated on or after the first day
\* of today's month.
month_expenses(df, today) ==
    LET current_month == to_datetime(replace_day1(today))
    IN  SumAmount(df, SelectSeq(AllRows(df),
            LAMBDA i : df[i].type = Expense /\ TsLeq(current_month, df[i].date)))

\* set_budget, line 141: min(month_expenses / new_budget * 100, 100) if
\* new_budget > 0 else 0, as the fraction <<numerator, denominator>>.
progress(expenses, new_budget) ==
    IF new_budget > 0
    THEN IF expenses * 100 <= 100 * new_budget
         THEN <<expenses * 100, new_budget>>
         ELSE <<100, 1>>
    ELSE <<0, 1>>

\* set_budget, line 145: the over-budget warning.
over_budget(expenses, new_budget) == expenses > new_budget

\* A slip in the range filter: the end bound taken strictly.
range_rows_open_end(df, start_date, end_date) ==
    LET start_datetime == to_datetime(start_date)
        end_datetime == to_datetime(end_date)
    IN  SelectSeq(AllRows(df),
            LAMBDA i : TsLeq(start_datetime, df[i].date)
                       /\ ~TsLeq(end_datetime, df[i].date))

\* _show_filtered_transactions, lines 239-245: both bounds inclusive.
range_rows(df, start_date, end_date) ==
    LET start_datetime == to_datetime(start_date)
        end_datetime == to_datetime(end_date)
    IN  SelectSeq(AllRows(df),
            LAMBDA i : TsLeq(start_datetime, df[i].date)
                       /\ TsLeq(df[i].date, end_datetime))

\* A slip in the range check: the dates compared the other way round.
start_before_end_swapped(start_date, end_date) ==
    \/ end_date[1] < start_date[1]
    \/ end_date[1] = start_date[1] /\ end_date[2] <= start_date[2]

\* datetime.date comparison start_date <= end_date (line 162).
start_before_end(start_date, end_date) ==
    \/ start_date[1] < end_date[1]
    \/ start_date[1] = end_date[1] /\ start_date[2] <= end_date[2]

\* expenses.groupby('日期')['金額'].sum().reset_index(): one <<date, sum>>
\* per distinct date of the rows, by ascending date.
RECURSIVE daily_totals(_, _)
daily_totals(df, labels) ==
    IF labels = <<>> THEN <<>>
    ELSE LET first == CHOOSE i \in Range(labels) :
                          \A j \in Range(labels) : TsLeq(df[i].date, df[j].date)
             day == df[first].date
             same == SelectSeq(labels, LAMBDA i : df[i].date = day)
             rest == SelectSeq(labels, LAMBDA i : df[i].date # day)
         IN  <<<<day, SumAmount(df, same)>>>> \o daily_totals(df, rest)

\* px.pie(frame, values='金額', names='類別'): the share of each category
\* that occurs among the rows.
category_totals(df, labels) ==
    {<<c, SumAmount(df, SelectSeq(labels, LAMBDA i : df[i].category = c))>> :
        c \in {df[i].category : i \in Range(labels)}}

(***************************** handlers ************************************)
Init ==
    /\ transactions = InitialTransactions
    /\ categories = InitialCategories
    /\ budget = InitialBudget
    /\ out = [op |-> "init"]

\* add_transaction_sidebar: the form is submitted with these widget values;
\* the category is whatever the selectbox over the current list returns.
AddTransactionSidebar(date, category, amount, transaction_type, note) ==
    /\ Len(transactions) < MaxTx
    /\ category \in Selectbox(categories)
    /\ transactions' =
         add_transaction(transactions, date, category, amount, transaction_type, note)
    /\ out' = [op |-> "add_transaction"]
    /\ UNCHANGED <<categories, budget>>

\* manage_categories_sidebar: the name to delete is chosen in a selectbox
\* over [''] + categories.
ManageCategoriesSidebar(new_category, delete_category) ==
    /\ delete_category \in Selectbox(<<"">> \o categories)
    /\ LET r == update_categories(categories, new_category, delete_category)
       IN  /\ categories' = r.categories
           /\ out' = [op |-> "update_categories",
                      new_category |-> new_category,
                      delete_category |-> delete_category,
                      added |-> r.added, deleted |-> r.deleted,
                      raised |-> r.raised]
    /\ UNCHANGED <<transactions, budget>>

\* A slip in display_transactions: the sorted frame stored back in the
\* session (the frame sorted in place).
DisplayTransactionsInPlace(filter_type, filter_category, sort_by) ==
    /\ transactions # <<>>
    /\ filter_type \subseteq Types
    /\ filter_category \subseteq Range(categories)
    /\ \E df \in sort_values(transactions,
                    filter_rows(transactions, filter_type, filter_category),
                    SortColumn(sort_by), SortAscending(sort_by)) :
           /\ out' = [op |-> "display_transactions", shown |-> "dataframe",
                      filter_type |-> filter_type,
                      filter_category |-> filter_category,
                      sort_by |-> sort_by, rows |-> df]
           /\ transactions' = [k \in 1..Len(df) |-> transactions[df[k]]]
    /\ UNCHANGED <<categories, budget>>

\* display_transactions: the table of the first tab.
DisplayTransactions(filter_type, filter_category, sort_by) ==
    /\ IF transactions # <<>>
       THEN /\ filter_type \subseteq Types
            /\ filter_category \subseteq Range(categories)
            /\ \E df \in sort_values(transactions,
                            filter_rows(transactions, filter_type, filter_category),
                            SortColumn(sort_by), SortAscending(sort_by)) :
                   out' = [op |-> "display_transactions", shown |-> "dataframe",
                           filter_type |-> filter_type,
                           filter_category |-> filter_category,
                           sort_by |-> sort_by, rows |-> df]
       ELSE out' = [op |-> "display_transactions", shown |-> "info", rows |-> <<>>]
    /\ UNCHANGED <<transactions, categories, budget>>

\* generate_report with _plot_expense_analysis and _plot_income_analysis.
GenerateReport ==
    /\ IF transactions # <<>>
       THEN LET all == AllRows(transactions)
                expenses == type_total(transactions, all, Expense)
                incomes == type_total(transactions, all, Income)
                expense_rows == SelectSeq(all, LAMBDA i : transactions[i].type = Expense)
                income_rows == SelectSeq(all, LAMBDA i : transactions[i].type = Income)
            IN  out' = [op |-> "generate_report", shown |-> "metrics",
                        incomes |-> incomes, expenses |-> expenses,
                        net_balance |-> incomes - expenses,
                        expense_pie |-> category_totals(transactions, expense_rows),
                        daily_expenses |-> daily_totals(transactions, expense_rows),
                        income_pie |-> category_totals(transactions, income_rows),
                        daily_incomes |-> daily_totals(transactions, income_rows)]
       ELSE out' = [op |-> "generate_report", shown |-> "info"]
    /\ UNCHANGED <<transactions, categories, budget>>

\* set_budget: the number input is stored as the budget, then this month's
\* expenses are compared with it.
SetBudget(new_budget, today) ==
    /\ budget' = new_budget
    /\ IF transactions # <<>>
       THEN LET spent == month_expenses(transactions, today)
            IN  out' = [op |-> "set_budget", shown |-> "progress",
                        new_budget |-> new_budget, today |-> today,
                        month_expenses |-> spent,
                        progress |-> progress(spent, new_budget),
                        warning |-> over_budget(spent, new_budget)]
       ELSE out' = [op |-> "set_budget", shown |-> "nothing",
                    new_budget |-> new_budget]
    /\ UNCHANGED <<transactions, categories>>

\* query_transactions with _show_filtered_transactions.
QueryTransactions(start_date, end_date) ==
    /\ IF start_before_end(start_date, end_date)
       THEN LET filtered == range_rows(transactions, start_date, end_date)
            IN  IF filtered # <<>>
                THEN LET income == type_total(transactions, filtered, Income)
                         expense == type_total(transactions, filtered, Expense)
                     IN  out' = [op |-> "query_transactions", shown |-> "dataframe",
                                 start_date |-> start_date, end_date |-> end_date,
                                 income |-> income, expense |-> expense,
                                 balance |-> income - expense,
                                 rows |-> filtered]
                ELSE out' = [op |-> "query_transactions", shown |-> "info",
                             start_date |-> start_date, end_date |-> end_date,
                             rows |-> <<>>]
       ELSE out' = [op |-> "query_transactions", shown |-> "error",
                    start_date |-> start_date, end_date |-> end_date]
    /\ UNCHANGED <<transactions, categories, budget>>

(***************************** specifications ******************************)
\* The first n options of a selectbox: the ones the user of the session
\* specification picks from (the category shown first in the transaction
\* form; '' or the first category in the deletion box).
FirstOptions(options, n) == SubSeq(options, 1, Min(Len(options), n))

\* The session from its construction.  The forms are submitted with any of
\* the bounded values; the tabs are rendered with their widgets as first
\* shown (both types, every category, newest first; the last RefDates day).
Next ==
    \/ \E date \in FormDates, amount \in FormAmounts, t \in Types, note \in Notes :
         \E category \in Selectbox(FirstOptions(categories, 1)) :
            AddTransactionSidebar(date, category, amount, t, note)
    \/ \E new_category \in NewNames \cup {""} :
         \E delete_category \in Selectbox(FirstOptions(<<"">> \o categories, 2)) :
            ManageCategoriesSidebar(new_category, delete_category)
    \/ DisplayTransactions(Types, Range(categories), "DateDesc")
    \/ GenerateReport
    \/ \E new_budget \in Budgets : SetBudget(new_budget, Today)
    \/ \E start_date \in RangeDates : QueryTransactions(start_date, Today)

Spec == Init /\ [][Next]_vars


\* The tabs over a ledger the session has built, with every bounded value of
\* their widgets.  The ledgers are those of a session that added "Salary",
\* recorded up to MaxTx transactions under "Food" and "Salary" and removed
\* "Salary" again, which leaves the rows under it without a listed category.
StoredRows ==
    [date : {to_datetime(d) : d \in Dates},
     category : {"Food", "Salary"},
     amount : Amounts,
     type : Types,
     note : Notes]

Ledgers == UNION {[1..n -> StoredRows] : n \in 0..MaxTx}

InitLedger ==
    /\ transactions \in Ledgers
    /\ categories = DefaultCategories
    /\ budget = InitialBudget
    /\ out = [op |-> "init"]

\* The multiselect of types: both (as first shown), expenses only, cleared.
TypeFilters == {Types, {Expense}, {}}

\* The multiselect of categories: everything (as first shown) or the first
\* category deselected.
CategoryFilters == {Range(categories), Range(categories) \ {categories[1]}}

NextQuery ==
    \/ \E filter_type \in TypeFilters, filter_category \in CategoryFilters,
          sort_by \in SortOptions :
         DisplayTransactions(filter_type, filter_category, sort_by)
    \/ GenerateReport
    \/ \E start_date, end_date \in RangeDates :
         QueryTransactions(start_date, end_date)

SpecQuery == InitLedger /\ [][NextQuery]_vars

NextBudget ==
    \E new_budget \in Budgets, today \in RefDates : SetBudget(new_budget, today)

SpecBudget == InitLedger /\ [][NextBudget]_vars


(***************************** properties **********************************)
\* The calendar day of a stored Timestamp, and the order of calendar days.
DayOf(ts) == <<ts[1], ts[2]>>

DayLeq(a, b) == a[1] < b[1] \/ (a[1] = b[1] /\ a[2] <= b[2])

\* The sum of the amounts of the ledger rows whose label is in S.
RECURSIVE AmountOf(_)
AmountOf(S) ==
    IF S = {} THEN 0
    ELSE LET i == CHOOSE k \in S : TRUE
         IN  transactions[i].amount + AmountOf(S \ {i})

Rows == 1..Len(transactions)

NoDuplicates(s) == \A a, b \in DOMAIN s : a # b => s[a] # s[b]

\* C1: the ledger is append-only.  Every step leaves the transaction
\* sequence as it is or, when it is the addition of a transaction, extends
\* it by one record at the end; no stored record is removed, moved or
\* changed, also when its category is removed.
LedgerAppendOnly ==
    [][\/ transactions' = transactions
       \/ /\ out'.op = "add_transaction"
          /\ Len(transactions') = Len(transactions) + 1
          /\ SubSeq(transactions', 1, Len(transactions)) = transactions]_vars

\* C1 witness: two records are stored, and the category of the first one
\* has since been removed from the list.
LedgerAppendOnlyWitness ==
    /\ Len(transactions) = 2
    /\ transactions[1].category = "Food"
    /\ "Food" \notin Range(categories)
    /\ transactions[1] # transactions[2]

\* C2: the category of a transaction belongs to the category list that is
\* current when the transaction is added, whatever that list is (the empty
\* list included).
CategoryListedAtCreation ==
    [][Len(transactions') > Len(transactions)
         => transactions'[Len(transactions')].category \in Range(categories)]_vars

\* C3: removing a category removes the name when it is non-empty and
\* listed, and does nothing to the list otherwise; no error is raised,
\* nothing else changes, and the removal is reported exactly when a name
\* was removed.
RemoveCategoryContract ==
    [][out'.op = "update_categories"
         => LET name == out'.delete_category
                new == out'.new_category
                listed == Range(categories) \cup (IF new = "" THEN {} ELSE {new})
            IN  /\ ~out'.raised
                /\ out'.deleted = (name # "" /\ name \in listed)
                /\ Range(categories') = IF out'.deleted THEN listed \ {name} ELSE listed
                /\ Len(categories') = Cardinality(Range(categories'))
                /\ UNCHANGED <<transactions, budget>>]_vars

\* C3 witness: a listed name other than the last one was removed.
RemoveCategoryWitness ==
    /\ out.op = "update_categories"
    /\ out.deleted
    /\ out.delete_category = "Food"
    /\ categories = Tail(DefaultCategories)

\* C4: the category list never holds a name twice.  Adding a non-empty name
\* that is not listed appends it (the list grows by one) and reports it;
\* adding a listed name, or the empty string, leaves the list as it is and
\* reports nothing.
AddCategoryContract ==
    /\ []NoDuplicates(categories)
    /\ [][out'.op = "update_categories" /\ out'.delete_category = ""
            => LET new == out'.new_category
               IN  IF new # "" /\ new \notin Range(categories)
                   THEN /\ categories' = Append(categories, new)
                        /\ Len(categories') = Len(categories) + 1
                        /\ out'.added
                   ELSE /\ categories' = categories
                        /\ ~out'.added]_vars

\* C4 witness: a name was added to a list it had been added to and removed
\* from before, and is listed once.
AddCategoryWitness ==
    /\ out.op = "update_categories"
    /\ out.added
    /\ out.delete_category = ""
    /\ categories = <<"Salary">>

\* C5: the table of transactions holds each stored transaction whose type
\* and category pass the filters exactly once, under each of the four sort
\* orders, and holds no other row; on an empty ledger it holds no row.
FilterKeepsExactlyThePassingRows ==
    out.op = "display_transactions" =>
        IF transactions = <<>>
        THEN out.rows = <<>>
        ELSE /\ out.sort_by \in SortOptions
             /\ \A i \in Rows :
                  Cardinality({k \in DOMAIN out.rows : out.rows[k] = i})
                    = IF /\ transactions[i].type \in out.filter_type
                         /\ transactions[i].category \in out.filter_category
                      THEN 1 ELSE 0
             /\ Range(out.rows) \subseteq Rows

\* C5 witness: two equal records are both shown while the filter on types
\* is narrowed to expenses.
FilterWitness ==
    /\ out.op = "display_transactions"
    /\ Len(transactions) = 2
    /\ transactions[1] = transactions[2]
    /\ out.filter_type = {Expense}
    /\ Len(out.rows) = 2

\* C6: the table is sorted stably: two shown rows that are equal on the
\* sort column appear in the order in which they were added.
SortIsStable ==
    (out.op = "display_transactions" /\ transactions # <<>>) =>
        \A a, b \in DOMAIN out.rows :
            (/\ a < b
             /\ IF out.sort_by \in {"DateDesc", "DateAsc"}
                THEN transactions[out.rows[a]].date = transactions[out.rows[b]].date
                ELSE transactions[out.rows[a]].amount = transactions[out.rows[b]].amount)
            => out.rows[a] < out.rows[b]

\* C7: the budget tab shows as this month's expenses the sum of the amounts
\* of the expenses dated on or after the first day of today's month (later
\* months included, income excluded); the progress is that sum over the
\* budget in percent, capped at 100, and 0 for a budget of 0, so it lies
\* between 0 and 100; the warning is shown exactly when the sum exceeds the
\* budget, which for a budget of 0 is when the sum is positive.
BudgetComparison ==
    (out.op = "set_budget" /\ transactions # <<>>) =>
        LET spent == AmountOf({i \in Rows :
                        /\ transactions[i].type = Expense
                        /\ DayLeq(<<out.today[1], 1>>, DayOf(transactions[i].date))})
            limit == out.new_budget
            p == out.progress
        IN  /\ out.month_expenses = spent
            /\ p[2] > 0 /\ 0 <= p[1] /\ p[1] <= 100 * p[2]
            /\ limit > 0 /\ spent <= limit => p[1] * limit = spent * 100 * p[2]
            /\ limit > 0 /\ spent > limit => p[1] = 100 * p[2]
            /\ limit = 0 => p[1] = 0
            /\ out.warning = (spent > limit)
            /\ limit = 0 => out.warning = (spent > 0)
            /\ budget = limit

\* C7 witness: an expense dated in a later month and an income of this
\* month are stored; the expenses stay under a positive budget.
BudgetWitness ==
    /\ out.op = "set_budget"
    /\ Len(transactions) = 2
    /\ out.today = <<1, 2>>
    /\ transactions[1].type = Expense /\ transactions[1].date = <<2, 1, 0>>
    /\ transactions[2].type = Income /\ transactions[2].date = <<1, 2, 0>>
    /\ out.new_budget = 3
    /\ out.progress[1] > 0 /\ out.progress[1] < 100 * out.progress[2]

\* C8: a range query whose start date is after its end date shows the
\* range error, selects and sums nothing, and leaves the transactions, the
\* categories and the budget as they are.
InvalidRangeContract ==
    [][(/\ out'.op = "query_transactions"
        /\ ~DayLeq(out'.start_date, out'.end_date))
         => /\ out'.shown = "error"
            /\ DOMAIN out' = {"op", "shown", "start_date", "end_date"}
            /\ UNCHANGED <<transactions, categories, budget>>]_vars

\* C8 witness: the range error is shown over a ledger that has records
\* dated between the two dates.
InvalidRangeWitness ==
    /\ out.op = "query_transactions"
    /\ out.shown = "error"
    /\ out.start_date = <<2, 1>> /\ out.end_date = <<1, 2>>
    /\ Len(transactions) = 2
    /\ transactions[1].date = <<1, 2, 0>>

\* C9: a range query whose start date is not after its end date shows
\* exactly the transactions dated from the start date to the end date, both
\* included, in ledger order, with the income and the expense summed over
\* them (0 for a type that does not occur) and their difference as balance.
RangeQueryContract ==
    (/\ out.op = "query_transactions"
     /\ DayLeq(out.start_date, out.end_date)) =>
        LET inRange == {i \in Rows :
                          /\ DayLeq(out.start_date, DayOf(transactions[i].date))
                          /\ DayLeq(DayOf(transactions[i].date), out.end_date)}
        IN  /\ out.shown \in {"dataframe", "info"}
            /\ Range(out.rows) = inRange
            /\ \A a, b \in DOMAIN out.rows : a < b => out.rows[a] < out.rows[b]
            /\ out.rows # <<>> =>
                 /\ out.income =
                      AmountOf({i \in inRange : transactions[i].type = Income})
                 /\ out.expense =
                      AmountOf({i \in inRange : transactions[i].type = Expense})
                 /\ out.balance = out.income - out.expense

\* C9 witness: a record dated on the end date is shown, a record dated
\* before the start date is not, and no income occurs in the range.
RangeQueryWitness ==
    /\ out.op = "query_transactions"
    /\ out.start_date = <<2, 1>> /\ out.end_date = <<2, 1>>
    /\ Len(transactions) = 2
    /\ out.rows = <<2>>
    /\ transactions[2].type = Expense
    /\ out.income = 0 /\ out.balance < 0

=============================================================================
